---- MODULE Spec2Model ----
(***************************************************************************)
(* Model of pretix/api/serializers/event.py: the event serializers'        *)
(* validation pipeline (field validators, then validate()), the            *)
(* transactional create / update / clone handlers, and the two field       *)
(* adapters (MetaDataField, PluginsField).                                  *)
(*                                                                         *)
(* A request's data is a Python dict: a function whose DOMAIN holds only   *)
(* the keys the client supplied.  The database is a pair                   *)
(* [events, meta_values]: the Event table keyed by <<organizer, slug>> and *)
(* the set of EventMetaValue rows.                                         *)
(***************************************************************************)
EXTENDS Integers, FiniteSets, Sequences, TLC

\* ---------------------------------------------------------------- bounds
MaxTime == 2            \* timestamps are 1..MaxTime
MaxValue == 2           \* meta values are 1..MaxValue

None == 0               \* Python None for a nullable timestamp
Times == 1..MaxTime
Values == 1..MaxValue

Orgs == {"o1", "o2"}
Slugs == {"a", "b"}
AllKeys == Orgs \X Slugs
NoInstance == <<>>      \* self.instance is None

\* organizer.meta_properties: the property names each organizer declares
OrgProps == [o \in Orgs |-> IF o = "o1" THEN {"k1", "k2"} ELSE {"k2"}]

\* The plugin registry.  name is a sequence of characters; `visible' may be
\* missing (getattr default); availableFor models app.is_available(event).
PluginRegistry ==
    { [module |-> "pa", name |-> <<"A">>, availableFor |-> AllKeys],
      [module |-> "pb", name |-> <<"B">>, visible |-> TRUE,
       availableFor |-> {<<"o1", "b">>}],
      [module |-> "ph", name |-> <<".", "H">>, availableFor |-> AllKeys],
      [module |-> "pi", name |-> <<"I">>, visible |-> FALSE,
       availableFor |-> AllKeys] }

\* Event model defaults for fields a create request does not supply
DefaultPlugins == {"pa", "ph"}
DefaultIsPublic == FALSE

VARIABLES events, meta_values, last
vars == <<events, meta_values, last>>

\* ------------------------------------------------------------ Python dicts
EmptyDict == [k \in {} |-> 0]
get(d, k, default) == IF k \in DOMAIN d THEN d[k] ELSE default
\* dict.pop(k): the dict without the key
pop(d, k) == [x \in DOMAIN d \ {k} |-> d[x]]
\* dict.update
update(d, e) == e @@ d

\* ------------------------------------------------------------ the database
BlankEvent == [exists |-> FALSE, live |-> FALSE, ready |-> FALSE,
               date_from |-> None, date_to |-> None,
               presale_start |-> None, presale_end |-> None,
               is_public |-> DefaultIsPublic, plugins |-> {}]

DB == [events |-> events, meta_values |-> meta_values]

\* event.meta_values.all()
MetaRows(D, key) == {r \in D.meta_values : r.event = key}

\* ------------------------------------------------------ domain model (Event)
\* Event.clean_dates
clean_dates(date_from, date_to) ==
    IF date_from # None /\ date_to # None /\ date_from > date_to
    THEN {"The event cannot end before it starts."} ELSE {}

\* Event.clean_presale
clean_presale(presale_start, presale_end) ==
    IF presale_start # None /\ presale_end # None /\ presale_start > presale_end
    THEN {"The event's presale cannot end before it starts."} ELSE {}

\* Event.clean_slug: the slug must be unique within the organizer
clean_slug(D, org, instance, slug) ==
    IF <<org, slug>> \in AllKeys /\ D.events[<<org, slug>>].exists
       /\ <<org, slug>> # instance
    THEN {"This slug has already been used for a different event."} ELSE {}

\* Event.clean_live: quotas and payment must exist before sales go live
clean_live(D, instance) ==
    IF ~D.events[instance].ready
    THEN {"You need to configure at least one quota to sell anything."} ELSE {}

\* Event.get_plugins
get_plugins(obj) == obj.plugins

\* Event.set_active_plugins: replaces the object's plugin set (in memory)
set_active_plugins(obj, modules) == [obj EXCEPT !.plugins = modules]

\* pretix.base.plugins.get_all_plugins(event=None)
get_all_plugins(event) ==
    {p \in PluginRegistry : event = NoInstance \/ event \in p.availableFor}

startswith(name, c) == Len(name) >= 1 /\ name[1] = c
\* getattr(p, 'visible', True)
getattr_visible(p) == IF "visible" \in DOMAIN p THEN p.visible ELSE TRUE

\* ----------------------------------------------------------- field adapters
\* MetaDataField.to_representation
MetaDataField_to_representation(D, key) ==
    [n \in {r.property.name : r \in MetaRows(D, key)} |->
        (CHOOSE r \in MetaRows(D, key) : r.property.name = n).value]

\* MetaDataField.to_internal_value
MetaDataField_to_internal_value(data) == [meta_data |-> data]

\* PluginsField.to_representation
PluginsField_to_representation(obj) ==
    {p.module : p \in {q \in get_all_plugins(NoInstance) :
        ~startswith(q.name, ".") /\ getattr_visible(q)
        /\ q.module \in get_plugins(obj)}}

\* PluginsField.to_internal_value
PluginsField_to_internal_value(data) == [plugins |-> data]

\* --------------------------------------------------------- field validators
\* Each validator yields the set of error messages it raises ({}: accepted).

\* EventSerializer.validate_slug
validate_slug(D, org, instance, value) == clean_slug(D, org, instance, value)

\* validate_live without the check for a missing instance
validate_live_nocreate(D, instance, value) ==
    IF value /\ instance # NoInstance THEN clean_live(D, instance) ELSE {}

\* EventSerializer.validate_live
validate_live(D, instance, value) ==
    IF value
    THEN IF instance = NoInstance
         THEN {"Events cannot be created as 'live'."}
         ELSE clean_live(D, instance)
    ELSE {}

\* EventSerializer.meta_properties: name -> property object
meta_properties(org) == [n \in OrgProps[org] |-> [organizer |-> org, name |-> n]]

\* validate_meta_data raising only when no key at all is declared
validate_meta_data_allunknown(org, value) ==
    IF DOMAIN value.meta_data # {}
       /\ \A key \in DOMAIN value.meta_data : key \notin DOMAIN meta_properties(org)
    THEN {"Meta data property does not exist."} ELSE {}

\* EventSerializer.validate_meta_data
validate_meta_data(org, value) ==
    IF \E key \in DOMAIN value.meta_data : key \notin DOMAIN meta_properties(org)
    THEN {"Meta data property does not exist."} ELSE {}

\* validate_plugins without the visibility filter
validate_plugins_novisible(instance, value) ==
    LET plugins_available == {p.module : p \in get_all_plugins(instance)}
    IN IF \E plugin \in value.plugins : plugin \notin plugins_available
       THEN {"Unknown plugin."} ELSE {}

\* EventSerializer.validate_plugins
validate_plugins(instance, value) ==
    LET plugins_available ==
            {p.module : p \in {q \in get_all_plugins(instance) :
                ~startswith(q.name, ".") /\ getattr_visible(q)}}
    IN IF \E plugin \in value.plugins : plugin \notin plugins_available
       THEN {"Unknown plugin."} ELSE {}

\* Serializer.to_internal_value: runs every supplied field's validate_<field>
\* and collects the errors.
to_internal_value(D, org, instance, data) ==
    (IF "slug" \in DOMAIN data
        THEN validate_slug(D, org, instance, data.slug) ELSE {})
    \cup (IF "live" \in DOMAIN data
        THEN validate_live(D, instance, data.live) ELSE {})
    \cup (IF "meta_data" \in DOMAIN data
        THEN validate_meta_data(org, MetaDataField_to_internal_value(data.meta_data))
        ELSE {})
    \cup (IF "plugins" \in DOMAIN data
        THEN validate_plugins(instance, PluginsField_to_internal_value(data.plugins))
        ELSE {})

\* Serializer.to_representation(instance): the instance's fields on the wire
to_representation(D, key) ==
    LET e == D.events[key]
    IN [slug |-> key[2], live |-> e.live, date_from |-> e.date_from,
        date_to |-> e.date_to, presale_start |-> e.presale_start,
        presale_end |-> e.presale_end, is_public |-> e.is_public,
        meta_data |-> MetaDataField_to_representation(D, key),
        plugins |-> PluginsField_to_representation(e)]

\* validate without the presale check
validate_nopresale(D, org, instance, data) ==
    LET roundtrip == IF instance # NoInstance
                     THEN to_internal_value(D, org, instance,
                                            to_representation(D, instance))
                     ELSE {}
    IN IF roundtrip # {} THEN roundtrip
       ELSE clean_dates(get(data, "date_from", None), get(data, "date_to", None))

\* EventSerializer.validate: full_data (the merged state) is built, and the
\* checks then read the incoming data.
validate(D, org, instance, data) ==
    LET roundtrip == IF instance # NoInstance
                     THEN to_internal_value(D, org, instance,
                                            to_representation(D, instance))
                     ELSE {}
        full_data == update(IF instance # NoInstance
                            THEN to_representation(D, instance) ELSE EmptyDict,
                            data)
    IN IF roundtrip # {} THEN roundtrip
       ELSE IF clean_dates(get(data, "date_from", None),
                           get(data, "date_to", None)) # {}
       THEN clean_dates(get(data, "date_from", None), get(data, "date_to", None))
       ELSE clean_presale(get(data, "presale_start", None),
                          get(data, "presale_end", None))

\* Serializer.run_validation: field validators first, validate() only when
\* none of them raised.
run_validation(D, org, instance, data) ==
    LET field_errors == to_internal_value(D, org, instance, data)
    IN IF field_errors # {} THEN field_errors
       ELSE validate(D, org, instance, data)

\* ------------------------------------------------------------------- ORM
\* A handler run: the database as the handler's connection sees it, the
\* in-memory instance it returns, and whether an exception escaped.
Run(D, obj, raised) == [db |-> D, obj |-> obj, raised |-> raised]

EventFields == DOMAIN BlankEvent \ {"exists", "ready", "plugins"}

\* setattr(instance, attr, value) for every model field in validated_data
setattrs(obj, data) ==
    [f \in DOMAIN obj |->
        IF f \in EventFields /\ f \in DOMAIN data THEN data[f] ELSE obj[f]]

\* instance.save(): writes the in-memory object to its row
save(D, key, obj) == [D EXCEPT !.events[key] = obj]

\* ModelSerializer.create: Event.objects.create(**validated_data)
ModelSerializer_create(D, key, validated_data) ==
    LET obj == setattrs([BlankEvent EXCEPT !.exists = TRUE,
                                           !.plugins = DefaultPlugins],
                        validated_data)
    IN Run(save(D, key, obj), obj, FALSE)

\* ModelSerializer.update: setattr for each field, then instance.save()
ModelSerializer_update(D, key, validated_data) ==
    LET obj == setattrs(D.events[key], validated_data)
    IN Run(save(D, key, obj), obj, FALSE)

\* self.meta_properties.get(key): None for a name the organizer lacks
NoProperty == [organizer |-> "", name |-> ""]
meta_properties_get(org, key) ==
    IF key \in DOMAIN meta_properties(org) THEN meta_properties(org)[key]
    ELSE NoProperty

\* event.meta_values.create(property=..., value=...)
MetaValue(key, prop, value) == [event |-> key, property |-> prop, value |-> value]

\* Event.copy_data_from(other): copies the source's configuration onto the
\* new event and saves it; raises when other is None.
copy_data_from(W, key, other) ==
    IF other = NoInstance THEN Run(W.db, W.obj, TRUE)
    ELSE LET src == W.db.events[other]
             obj == [W.obj EXCEPT !.plugins = src.plugins,
                                  !.is_public = src.is_public,
                                  !.ready = src.ready]
         IN Run(save(W.db, key, obj), obj, FALSE)

\* no transaction: the writes made before the exception stay
atomic_norollback(D, W) == W.db

\* @transaction.atomic: an exception rolls every write of the block back
atomic(D, W) == IF W.raised THEN D ELSE W.db

\* --------------------------------------------------------------- handlers
\* fault names the step at which the database (or a plugin hook) raises:
\* "none", "meta" (a meta value create/save/delete) or "plugins".

\* EventSerializer.create, lines 114-120: the meta data step
create_meta_values(W, org, key, meta_data, fault) ==
    LET props == {meta_properties_get(org, k) : k \in DOMAIN meta_data}
        rows == {MetaValue(key, meta_properties_get(org, k), meta_data[k]) :
                    k \in DOMAIN meta_data}
    IN IF NoProperty \in props \/ (fault = "meta" /\ rows # {})
       THEN Run(W.db, W.obj, TRUE)
       ELSE Run([W.db EXCEPT !.meta_values = @ \cup rows], W.obj, FALSE)

\* EventSerializer.create
EventSerializer_create(D, org, validated_data, fault) ==
    LET has_meta == "meta_data" \in DOMAIN validated_data
        has_plugins == "plugins" \in DOMAIN validated_data
        rest == pop(pop(validated_data, "meta_data"), "plugins")
        key == <<org, rest.slug>>
        W1 == ModelSerializer_create(D, key, rest)
        W2 == IF has_meta
              THEN create_meta_values(W1, org, key, validated_data.meta_data, fault)
              ELSE W1
    IN IF W2.raised THEN W2
       ELSE IF has_plugins
       THEN IF fault = "plugins" THEN Run(W2.db, W2.obj, TRUE)
            ELSE Run(W2.db, set_active_plugins(W2.obj, validated_data.plugins),
                     FALSE)
       ELSE W2

\* the meta data step without its deletion loop
update_meta_values_nodelete(W, org, key, meta_data, fault) ==
    LET mine == MetaRows(W.db, key)
        current == [p \in {r.property : r \in mine} |->
                        CHOOSE r \in mine : r.property = p]
        props == {meta_properties_get(org, k) : k \in DOMAIN meta_data}
        written == {MetaValue(key, meta_properties_get(org, k), meta_data[k]) :
                    k \in DOMAIN meta_data}
        overwritten == {current[p] : p \in DOMAIN current \cap props}
    IN IF NoProperty \in props \/ (fault = "meta" /\ written # {})
       THEN Run(W.db, W.obj, TRUE)
       ELSE Run([W.db EXCEPT !.meta_values = (@ \ overwritten) \cup written],
                W.obj, FALSE)

\* EventSerializer.update, lines 134-150: the meta data step
update_meta_values(W, org, key, meta_data, fault) ==
    LET mine == MetaRows(W.db, key)
        current == [p \in {r.property : r \in mine} |->
                        CHOOSE r \in mine : r.property = p]
        props == {meta_properties_get(org, k) : k \in DOMAIN meta_data}
        saved == {MetaValue(key, meta_properties_get(org, k), meta_data[k]) :
                    k \in {x \in DOMAIN meta_data :
                            meta_properties_get(org, x) \in DOMAIN current}}
        created == {MetaValue(key, meta_properties_get(org, k), meta_data[k]) :
                    k \in {x \in DOMAIN meta_data :
                            meta_properties_get(org, x) \notin DOMAIN current}}
        overwritten == {current[p] : p \in DOMAIN current \cap props}
        deleted == {current[p] : p \in {q \in DOMAIN current :
                                            q.name \notin DOMAIN meta_data}}
        touched == saved \cup created \cup deleted
    IN IF NoProperty \in props \/ (fault = "meta" /\ touched # {})
       THEN Run(W.db, W.obj, TRUE)
       ELSE Run([W.db EXCEPT !.meta_values =
                    (((@ \ overwritten) \cup saved) \cup created) \ deleted],
                W.obj, FALSE)

\* update testing `if meta_data:' in place of `if meta_data is not None:'
EventSerializer_update_truthy(D, instance, validated_data, fault) ==
    LET org == instance[1]
        has_meta == "meta_data" \in DOMAIN validated_data
        has_plugins == "plugins" \in DOMAIN validated_data
        rest == pop(pop(validated_data, "meta_data"), "plugins")
        W1 == ModelSerializer_update(D, instance, rest)
        W2 == IF has_meta /\ validated_data.meta_data # EmptyDict
              THEN update_meta_values(W1, org, instance,
                                      validated_data.meta_data, fault)
              ELSE W1
    IN IF W2.raised THEN W2
       ELSE IF has_plugins
       THEN IF fault = "plugins" THEN Run(W2.db, W2.obj, TRUE)
            ELSE LET obj == set_active_plugins(W2.obj, validated_data.plugins)
                 IN Run(save(W2.db, instance, obj), obj, FALSE)
       ELSE W2

\* EventSerializer.update
EventSerializer_update(D, instance, validated_data, fault) ==
    LET org == instance[1]
        has_meta == "meta_data" \in DOMAIN validated_data
        has_plugins == "plugins" \in DOMAIN validated_data
        rest == pop(pop(validated_data, "meta_data"), "plugins")
        W1 == ModelSerializer_update(D, instance, rest)
        W2 == IF has_meta
              THEN update_meta_values(W1, org, instance,
                                      validated_data.meta_data, fault)
              ELSE W1
    IN IF W2.raised THEN W2
       ELSE IF has_plugins
       THEN IF fault = "plugins" THEN Run(W2.db, W2.obj, TRUE)
            ELSE LET obj == set_active_plugins(W2.obj, validated_data.plugins)
                 IN Run(save(W2.db, instance, obj), obj, FALSE)
       ELSE W2

\* CloneEventSerializer.create, line 167: the source event, or None
clone_source(D, org, slug) ==
    IF D.events[<<org, slug>>].exists THEN <<org, slug>> ELSE NoInstance

\* the overrides testing `if is_public:' in place of `is not None'
clone_overrides_truthy(W, key, validated_data, fault) ==
    LET has_plugins == "plugins" \in DOMAIN validated_data
        o1 == IF has_plugins
              THEN set_active_plugins(W.obj, validated_data.plugins) ELSE W.obj
        o2 == IF "is_public" \in DOMAIN validated_data /\ validated_data.is_public
              THEN [o1 EXCEPT !.is_public = TRUE] ELSE o1
    IN IF has_plugins /\ fault = "plugins" THEN Run(W.db, W.obj, TRUE)
       ELSE Run(save(W.db, key, o2), o2, FALSE)

\* CloneEventSerializer.create, lines 170-174: overrides, then save
clone_overrides(W, key, validated_data, fault) ==
    LET has_plugins == "plugins" \in DOMAIN validated_data
        o1 == IF has_plugins
              THEN set_active_plugins(W.obj, validated_data.plugins) ELSE W.obj
        o2 == IF "is_public" \in DOMAIN validated_data
              THEN [o1 EXCEPT !.is_public = validated_data.is_public] ELSE o1
    IN IF has_plugins /\ fault = "plugins" THEN Run(W.db, W.obj, TRUE)
       ELSE Run(save(W.db, key, o2), o2, FALSE)

\* CloneEventSerializer.create: the runs after each of its steps
\* (create, copy, overrides + save)
CloneEventSerializer_steps(D, org, source, validated_data, fault) ==
    LET rest == pop(pop(validated_data, "plugins"), "is_public")
        key == <<org, rest.slug>>
        W1 == EventSerializer_create(D, org, rest, fault)
        W2 == IF W1.raised THEN W1
              ELSE copy_data_from(W1, key, clone_source(W1.db, org, source))
        W3 == IF W2.raised THEN W2
              ELSE clone_overrides(W2, key, validated_data, fault)
    IN <<W1, W2, W3>>

\* CloneEventSerializer.create
CloneEventSerializer_create(D, org, source, validated_data, fault) ==
    CloneEventSerializer_steps(D, org, source, validated_data, fault)[3]

\* ---------------------------------------------------------------- requests
\* `last' records the request handled last: what was asked, how it ended
\* ("ok", "invalid": a validation error, "error": an exception inside the
\* handler), whether the handler had written before it raised, the instance
\* it returned and, for a clone, the instance after its first two steps.
Outcome(errors, W) ==
    IF errors # {} THEN "invalid" ELSE IF W.raised THEN "error" ELSE "ok"

Last(kind, key, source, data, errors, outcome, dirty, returned, created, copied, repr) ==
    [kind |-> kind, key |-> key, source |-> source, data |-> data,
     errors |-> errors, outcome |-> outcome, dirty |-> dirty,
     returned |-> returned, after_create |-> created, after_copy |-> copied,
     repr |-> repr]

Commit(D) == /\ events' = D.events
             /\ meta_values' = D.meta_values

\* POST /events/: EventSerializer(data=...).is_valid(), then save() -> create()
Create(org, data, fault) ==
    LET D == DB
        key == <<org, data.slug>>
        errors == run_validation(D, org, NoInstance, data)
        W == IF errors # {} THEN Run(D, BlankEvent, FALSE)
             ELSE EventSerializer_create(D, org, data, fault)
    IN /\ Commit(IF errors # {} THEN D ELSE atomic(D, W))
       /\ last' = Last("create", key, "", data, errors, Outcome(errors, W),
                       W.db # D, W.obj, BlankEvent, BlankEvent, EmptyDict)

\* PATCH /events/<slug>/: EventSerializer(instance, data=..., partial=True)
Update(instance, data, fault) ==
    LET D == DB
        errors == run_validation(D, instance[1], instance, data)
        W == IF errors # {} THEN Run(D, BlankEvent, FALSE)
             ELSE EventSerializer_update(D, instance, data, fault)
    IN /\ events[instance].exists
       /\ Commit(IF errors # {} THEN D ELSE atomic(D, W))
       /\ last' = Last("update", instance, "", data, errors, Outcome(errors, W),
                       W.db # D, W.obj, BlankEvent, BlankEvent, EmptyDict)

\* POST /events/<source>/clone/: CloneEventSerializer(data=...), context
\* event = source slug, organizer = org
Clone(org, source, data, fault) ==
    LET D == DB
        key == <<org, data.slug>>
        errors == run_validation(D, org, NoInstance, data)
        steps == CloneEventSerializer_steps(D, org, source, data, fault)
        W == IF errors # {} THEN Run(D, BlankEvent, FALSE)
             ELSE CloneEventSerializer_create(D, org, source, data, fault)
    IN /\ Commit(IF errors # {} THEN D ELSE atomic(D, W))
       /\ last' = Last("clone", key, source, data, errors, Outcome(errors, W),
                       W.db # D, W.obj,
                       IF errors # {} THEN BlankEvent ELSE steps[1].obj,
                       IF errors # {} THEN BlankEvent ELSE steps[2].obj,
                       EmptyDict)

\* GET /events/<slug>/: serializer.data of the stored event
Retrieve(key) ==
    /\ events[key].exists
    /\ UNCHANGED <<events, meta_values>>
    /\ last' = Last("retrieve", key, "", EmptyDict, {}, "ok", FALSE,
                    events[key], BlankEvent, BlankEvent,
                    to_representation(DB, key))

\* Outside the serializers: quotas and payment get configured for the event
Provision(key) ==
    /\ events[key].exists
    /\ ~events[key].ready
    /\ events' = [events EXCEPT ![key].ready = TRUE]
    /\ UNCHANGED meta_values
    /\ last' = Last("provision", key, "", EmptyDict, {}, "ok", FALSE,
                    BlankEvent, BlankEvent, BlankEvent, EmptyDict)

\* The state after construction: an empty database
Init ==
    /\ events = [k \in AllKeys |-> BlankEvent]
    /\ meta_values = {}
    /\ last = Last("init", NoInstance, "", EmptyDict, {}, "ok", FALSE,
                   BlankEvent, BlankEvent, BlankEvent, EmptyDict)

\* ---------------------------------------------------------- request inputs
Opt(k, S) == {EmptyDict} \cup {k :> v : v \in S}
Req(k, S) == {k :> v : v \in S}

Faults == {"none", "meta", "plugins"}

\* plugin lists: visible, restricted, hidden, invisible, unregistered modules
PluginInputs == {{}, {"pa"}, {"pb"}, {"pa", "pb"}, {"ph"}, {"pi"}, {"pa", "px"}}

\* meta_data objects over two declared names and one undeclared name
MetaKeySets == {{}, {"k1"}, {"k2"}, {"k1", "k2"}, {"kx"}, {"k1", "kx"}}
MetaInputs == UNION {[K -> Values] : K \in MetaKeySets}

\* --- dates: one event; requests carry the event dates or the presale window
DateKey == <<"o1", "a">>
DateData ==
    {a @@ b : a \in Opt("date_from", Times),
              b \in Opt("date_to", Times \cup {None})}
    \cup {c @@ d : c \in Opt("presale_start", Times \cup {None}),
                   d \in Opt("presale_end", Times)}

NextDates ==
    \/ \E data \in DateData : Create(DateKey[1], ("slug" :> DateKey[2]) @@ data, "none")
    \/ \E data \in DateData : Update(DateKey, data, "none")
    \/ Retrieve(DateKey)

SpecDates == Init /\ [][NextDates]_vars

\* --- meta data and plugins: one event of organizer o1
MetaKey == <<"o1", "a">>
MetaData ==
    Opt("meta_data", MetaInputs) \cup Opt("plugins", PluginInputs)
    \cup {a @@ b : a \in Req("meta_data", {EmptyDict, "k1" :> 1}),
                   b \in Req("plugins", {{}, {"pa"}})}

NextMeta ==
    \/ \E data \in MetaData : Create(MetaKey[1], ("slug" :> MetaKey[2]) @@ data, "none")
    \/ \E data \in MetaData : Update(MetaKey, data, "none")
    \/ Retrieve(MetaKey)

SpecMeta == Init /\ [][NextMeta]_vars

\* --- live: two events of organizer o1, created, cloned, provisioned, updated
LiveKeys == {<<"o1", "a">>, <<"o1", "b">>}
LiveData == {a @@ b : a \in Opt("live", BOOLEAN),
                      b \in {EmptyDict, ("meta_data" :> ("k1" :> 1))
                                        @@ ("plugins" :> {"pa"})}}

NextLive ==
    \/ \E key \in LiveKeys, data \in LiveData :
            Create(key[1], ("slug" :> key[2]) @@ data, "none")
    \/ \E key \in LiveKeys, source \in Slugs, data \in LiveData :
            Clone(key[1], source, ("slug" :> key[2]) @@ data, "none")
    \/ \E key \in LiveKeys, data \in LiveData : Update(key, data, "none")
    \/ \E key \in LiveKeys : Provision(key)
    \/ \E key \in LiveKeys : Retrieve(key)

SpecLive == Init /\ [][NextLive]_vars

\* --- clone: two events of organizer o1 and one of organizer o2; plugin pb
\* is available for o1/b alone, and a clone of o1/b carries it to o1/a
CloneKeys == {<<"o1", "a">>, <<"o1", "b">>}
OtherKey == <<"o2", "b">>
CloneData == {a @@ b : a \in Opt("is_public", BOOLEAN),
                       b \in Opt("plugins", {{}, {"pb"}})}

NextClone ==
    \/ \E key \in CloneKeys \cup {OtherKey}, data \in Opt("is_public", BOOLEAN) :
            Create(key[1], ("slug" :> key[2]) @@ data, "none")
    \/ \E key \in CloneKeys, source \in Slugs, data \in CloneData :
            Clone(key[1], source, ("slug" :> key[2]) @@ data, "none")
    \/ \E key \in CloneKeys, data \in CloneData : Update(key, data, "none")
    \/ \E key \in CloneKeys : Retrieve(key)

SpecClone == Init /\ [][NextClone]_vars

\* --- all three handlers, with a step of the handler raising
Keys == {<<"o1", "a">>, <<"o1", "b">>}
Data == {a @@ b : a \in Opt("meta_data", {EmptyDict, "k2" :> 1}),
                  b \in Opt("plugins", {{"pa"}})}

Next ==
    \/ \E key \in Keys, data \in Data, fault \in Faults :
            Create(key[1], ("slug" :> key[2]) @@ data, fault)
    \/ \E key \in Keys, source \in Slugs, data \in Data, fault \in Faults :
            Clone(key[1], source, ("slug" :> key[2]) @@ data, fault)
    \/ \E key \in Keys, data \in Data, fault \in Faults :
            Update(key, data, fault)
    \/ \E key \in Keys : Retrieve(key)

Spec == Init /\ [][Next]_vars

\* ================================================================ claims
Handled == {"create", "update", "clone"}
Unchanged == UNCHANGED <<events, meta_values>>

LiveMessage == "Events cannot be created as 'live'."
MetaMessage == "Meta data property does not exist."
PluginMessage == "Unknown plugin."
DateMessages == {"The event cannot end before it starts.",
                 "The event's presale cannot end before it starts."}

\* the organizer a request runs under
OrgOf(l) == l.key[1]
\* self.instance of a request
InstanceOf(l) == IF l.kind = "update" THEN l.key ELSE NoInstance

\* C1: every create request (EventSerializer or CloneEventSerializer, no
\* instance) whose input has live = true ends in the validation error of
\* validate_live; the handler does not run and events and meta values stay
\* as they were, whatever the other fields are.
C1_LiveCreateFails ==
    [][(/\ last'.kind \in {"create", "clone"}
        /\ "live" \in DOMAIN last'.data
        /\ last'.data.live)
       => (/\ last'.outcome = "invalid"
           /\ LiveMessage \in last'.errors
           /\ last'.returned = BlankEvent
           /\ Unchanged)]_vars

C1_Witness ==
    /\ last.kind = "clone"
    /\ "live" \in DOMAIN last.data /\ last.data.live
    /\ "meta_data" \in DOMAIN last.data /\ "plugins" \in DOMAIN last.data
    /\ ~events[last.key].exists
    /\ events[<<OrgOf(last), last.source>>].exists
    /\ last.outcome = "invalid"

\* C2: an update whose meta_data holds at least one key that is not a meta
\* property of the organizer ends in a validation error and leaves the
\* stored meta values (and the events) as they were, also when other keys
\* of the input are declared.
C2_UnknownMetaKeyFails ==
    [][(/\ last'.kind = "update"
        /\ "meta_data" \in DOMAIN last'.data
        /\ \E k \in DOMAIN last'.data.meta_data : k \notin OrgProps[OrgOf(last')])
       => (/\ last'.outcome = "invalid"
           /\ MetaMessage \in last'.errors
           /\ Unchanged)]_vars

C2_Witness ==
    /\ last.kind = "update"
    /\ "meta_data" \in DOMAIN last.data
    /\ DOMAIN last.data.meta_data = {"k1", "kx"}
    /\ last.outcome = "invalid"
    /\ \E r \in meta_values : r.event = last.key /\ r.property.name = "k1"
                               /\ r.value # last.data.meta_data["k1"]

\* every event holds at most one meta value per property
AtMostOnePerProperty ==
    \A r1, r2 \in meta_values :
        (r1.event = r2.event /\ r1.property = r2.property) => r1 = r2

\* C3: after a successful update with meta data M the event's stored meta
\* values are exactly one row per key of M, carrying M[key], and nothing
\* else: the stored key set equals the key set of M.
C3_MetaReconciled ==
    /\ AtMostOnePerProperty
    /\ (/\ last.kind = "update"
        /\ last.outcome = "ok"
        /\ "meta_data" \in DOMAIN last.data)
       => LET M == last.data.meta_data
          IN /\ MetaRows(DB, last.key) =
                    {MetaValue(last.key, [organizer |-> OrgOf(last), name |-> k],
                               M[k]) : k \in DOMAIN M}
             /\ Cardinality(MetaRows(DB, last.key)) = Cardinality(DOMAIN M)
             /\ MetaDataField_to_representation(DB, last.key) = M

C3_Witness ==
    /\ last.kind = "update"
    /\ last.outcome = "ok"
    /\ "meta_data" \in DOMAIN last.data
    /\ DOMAIN last.data.meta_data = {"k2"}
    /\ last.dirty

\* C4: every stored event has date_from <= date_to when both are set and
\* presale_start <= presale_end when both are set.
C4_StoredDatesOrdered ==
    \A k \in AllKeys :
        events[k].exists =>
            /\ (events[k].date_from # None /\ events[k].date_to # None)
                => events[k].date_from <= events[k].date_to
            /\ (events[k].presale_start # None /\ events[k].presale_end # None)
                => events[k].presale_start <= events[k].presale_end

\* the incoming data holds both ends of a pair, in the wrong order
BadOrder(data, from, to) ==
    /\ from \in DOMAIN data /\ to \in DOMAIN data
    /\ data[from] # None /\ data[to] # None
    /\ data[from] > data[to]

C6_CloneOverrides ==
    (last.kind = "clone" /\ last.outcome = "ok")
    => LET e == events[last.key]
           d == last.data
           src == events[<<OrgOf(last), last.source>>]
       IN /\ e.exists
          /\ e = last.returned
          /\ last.after_create.plugins = DefaultPlugins
          /\ last.after_create.is_public = DefaultIsPublic
          /\ src.exists
          /\ (last.source # last.key[2]) =>
                /\ last.after_copy.plugins = src.plugins
                /\ last.after_copy.is_public = src.is_public
          /\ e.plugins = IF "plugins" \in DOMAIN d THEN d.plugins
                         ELSE last.after_copy.plugins
          /\ e.is_public = IF "is_public" \in DOMAIN d THEN d.is_public
                           ELSE last.after_copy.is_public

C6_Witness ==
    /\ last.kind = "clone"
    /\ last.outcome = "ok"
    /\ last.source # last.key[2]
    /\ "is_public" \in DOMAIN last.data /\ ~last.data.is_public
    /\ last.after_copy.is_public
    /\ "plugins" \notin DOMAIN last.data
    /\ last.after_copy.plugins = {}
    /\ events[OtherKey].exists

\* C7: a create, update or clone that raises after an earlier step has
\* written leaves events and meta values exactly as they were before the
\* request.
C7_Atomic ==
    [][(last'.kind \in Handled /\ last'.outcome = "error") => Unchanged]_vars

C7_Witness ==
    /\ last.kind = "clone"
    /\ last.outcome = "error"
    /\ last.dirty
    /\ "meta_data" \in DOMAIN last.data
    /\ ~events[<<OrgOf(last), last.source>>].exists

\* C8: after every successful create or update whose input supplies plugins
\* the stored event's plugin set is exactly the supplied set.
C8_PluginsPersisted ==
    (/\ last.kind \in {"create", "update"}
     /\ last.outcome = "ok"
     /\ "plugins" \in DOMAIN last.data)
    => events[last.key].plugins = last.data.plugins

\* the modules of the registered plugins an event may use and a client sees
VisibleModules(instance) ==
    {p.module : p \in {q \in PluginRegistry :
        /\ instance = NoInstance \/ instance \in q.availableFor
        /\ q.name[1] # "."
        /\ ("visible" \in DOMAIN q => q.visible)}}

\* C9: a request whose plugin list holds an identifier outside the visible
\* plugins available for its instance ends in the validation error 'Unknown
\* plugin'; a plugin list that reaches create()/update() is a subset of
\* that set; a read returns exactly the active modules that are visible.
C9_PluginsValidated ==
    /\ (last.kind \in {"create", "update"} /\ "plugins" \in DOMAIN last.data)
        => /\ ~(last.data.plugins \subseteq VisibleModules(InstanceOf(last)))
                => (last.outcome = "invalid" /\ PluginMessage \in last.errors)
           /\ last.outcome # "invalid"
                => last.data.plugins \subseteq VisibleModules(InstanceOf(last))
    /\ last.kind = "retrieve"
        => last.repr.plugins = events[last.key].plugins \cap VisibleModules(NoInstance)

C9_Witness ==
    /\ last.kind = "update"
    /\ "plugins" \in DOMAIN last.data
    /\ last.data.plugins = {"pi"}
    /\ last.outcome = "invalid"

\* C10: a successful update without meta_data leaves the event's meta values
\* as they were and one without plugins leaves its plugin set as it was;
\* meta_data = {} deletes every meta value of the event and plugins = []
\* leaves no plugin active; a supplied meta_data or plugins is applied
\* whatever the other one is.
C10_OmittedIsNotEmpty ==
    [][(last'.kind = "update" /\ last'.outcome = "ok")
       => LET d == last'.data
              k == last'.key
              rows == {r \in meta_values : r.event = k}
              rows2 == {r \in meta_values' : r.event = k}
          IN /\ "meta_data" \notin DOMAIN d => rows2 = rows
             /\ "plugins" \notin DOMAIN d => events'[k].plugins = events[k].plugins
             /\ ("meta_data" \in DOMAIN d /\ d.meta_data = EmptyDict) => rows2 = {}
             /\ ("plugins" \in DOMAIN d /\ d.plugins = {}) => events'[k].plugins = {}
             /\ "meta_data" \in DOMAIN d
                    => {<<r.property.name, r.value>> : r \in rows2}
                       = {<<n, d.meta_data[n]>> : n \in DOMAIN d.meta_data}
             /\ "plugins" \in DOMAIN d => events'[k].plugins = d.plugins]_vars

C10_Witness ==
    /\ last.kind = "update"
    /\ last.outcome = "ok"
    /\ "meta_data" \in DOMAIN last.data /\ last.data.meta_data = EmptyDict
    /\ "plugins" \notin DOMAIN last.data
    /\ last.dirty
    /\ events[last.key].plugins # {}

====
